---- MODULE Spec2Model ----
(***************************************************************************)
(* Bos-Coster multi-scalar multiplication, secp256k1_ecmult_multi, with    *)
(* its value-array max-heap (src/ecmult_multi_impl.h).                     *)
(*                                                                         *)
(* The curve group is cyclic of odd prime order; it is modelled as the     *)
(* additive group of integers modulo GroupOrder, the point at infinity     *)
(* being 0.  Scalars are the integers modulo the same order, held as their *)
(* canonical representative 0..GroupOrder-1.                               *)
(***************************************************************************)
EXTENDS Integers, Sequences, FiniteSets, Bags, TLC

VARIABLES
    sc, pt, n,                  \* arguments of secp256k1_ecmult_multi
    heap_sc, heap_pt, heap_n,   \* the heap arrays and the live count
    i,                          \* loading index
    max_s, max_p,               \* first extracted term (m, X)
    max_s1, max_p1,             \* second extracted term (m', Y)
    r,                          \* result *r
    pc,                         \* position in the function
    oob,                        \* a heap array was written outside 0..MAX_N-1
    dbl_inf,                    \* gej_double_nonzero was applied to infinity
    cnt_remove,                 \* calls of heap_remove (saturating)
    cnt_add, cnt_double,        \* calls of gej_add_var / gej_double_nonzero (saturating)
    loop_n, loop_max            \* heap_n and largest live scalar when the current
                                \* loop iteration began

vars == <<sc, pt, n, heap_sc, heap_pt, heap_n, i, max_s, max_p, max_s1, max_p1,
          r, pc, oob, dbl_inf, cnt_remove, cnt_add, cnt_double, loop_n, loop_max>>

(***************************************************************************)
(* Program constant and bounds of the model.                               *)
(***************************************************************************)
SECP256K1_ECMULT_MULTI_MAX_N == 32

\* index into OddPrimes of the group order used
OrderIdx == 2
\* largest n whose inputs are enumerated exhaustively
MaxTerms == 2
\* counters saturate here
CntCap == 3
\* largest number of live terms in the heap-only specification
HeapMaxLive == 4
\* largest scalar inserted in the heap-only specification
HeapMaxScalar == 2

OddPrimes == <<3, 5, 7, 11, 13, 17, 19, 23>>
GroupOrder == OddPrimes[OrderIdx]

\* a value no operation produces: contents of memory not yet written
Undef == 0 - 1

Scalars == 0 .. (GroupOrder - 1)
Points == 0 .. (GroupOrder - 1)
Slots == 0 .. (SECP256K1_ECMULT_MULTI_MAX_N - 1)

Bump(c) == IF c < CntCap THEN c + 1 ELSE c

(***************************************************************************)
(* Scalar and group primitives (scalar.h, group.h).                        *)
(***************************************************************************)
secp256k1_scalar_is_zero(a) == a = 0

secp256k1_scalar_eq(a, b) == a = b

secp256k1_scalar_cmp_var(a, b) == IF a < b THEN 0 - 1 ELSE IF a > b THEN 1 ELSE 0

secp256k1_scalar_negate(a) == (GroupOrder - a) % GroupOrder

secp256k1_scalar_add(a, b) == (a + b) % GroupOrder

\* shifts a right by k bits; ret is the k bits shifted out
secp256k1_scalar_shr_int(a, k) == [val |-> a \div (2 ^ k), ret |-> a % (2 ^ k)]

Infinity == 0

secp256k1_gej_is_infinity(a) == a = Infinity

secp256k1_gej_add_var(a, b) == (a + b) % GroupOrder

\* defined for a # Infinity only
secp256k1_gej_double_nonzero(a) == (2 * a) % GroupOrder

(***************************************************************************)
(* Heap operations.  Arrays are functions on Slots, indexed from 0 as in   *)
(* the source; a write outside Slots leaves the array alone and is         *)
(* reported in the oob field.                                              *)
(***************************************************************************)
Store(arr, idx, v) == IF idx \in DOMAIN arr THEN [arr EXCEPT ![idx] = v] ELSE arr

Load(arr, idx) == IF idx \in DOMAIN arr THEN arr[idx] ELSE Undef

\* line 12: the parent of slot ins is smaller than the inserted scalar
ParentSmaller_flipped(hsc, ins, ins_sc) ==
    ins > 1 /\ secp256k1_scalar_cmp_var(Load(hsc, ins \div 2 - 1), ins_sc) > 0

ParentSmaller(hsc, ins, ins_sc) ==
    ins > 1 /\ secp256k1_scalar_cmp_var(Load(hsc, ins \div 2 - 1), ins_sc) < 0

RECURSIVE SiftUp(_, _, _, _)
SiftUp(hsc, hpt, ins, ins_sc) ==
    IF ParentSmaller(hsc, ins, ins_sc)
    THEN SiftUp(Store(hsc, ins - 1, Load(hsc, ins \div 2 - 1)),
                Store(hpt, ins - 1, Load(hpt, ins \div 2 - 1)),
                ins \div 2, ins_sc)
    ELSE [sc |-> hsc, pt |-> hpt, ins |-> ins]

secp256k1_heap_insert(hsc, hpt, hn, ins_sc, ins_pt) ==
    LET up == SiftUp(hsc, hpt, hn + 1, ins_sc)
    IN  [sc  |-> Store(up.sc, up.ins - 1, ins_sc),
         pt  |-> Store(up.pt, up.ins - 1, ins_pt),
         n   |-> hn + 1,
         oob |-> hn \notin Slots]

SWAP_scalars_only(hsc, hpt, a, b) ==
    [sc |-> [hsc EXCEPT ![a] = hsc[b], ![b] = hsc[a]],
     pt |-> hpt]

SWAP(hsc, hpt, a, b) ==
    [sc |-> [hsc EXCEPT ![a] = hsc[b], ![b] = hsc[a]],
     pt |-> [hpt EXCEPT ![a] = hpt[b], ![b] = hpt[a]]]

\* line 43: a left child exists and the parent is smaller than it
LeftLarger(hsc, hn, rem) ==
    2 * rem - 1 < hn /\ secp256k1_scalar_cmp_var(hsc[rem - 1], hsc[2 * rem - 1]) < 0

\* line 45: a right child exists and the left child is smaller than it
RightLargerThanLeft_never(hsc, hn, rem) == FALSE

RightLargerThanLeft(hsc, hn, rem) ==
    2 * rem < hn /\ secp256k1_scalar_cmp_var(hsc[2 * rem - 1], hsc[2 * rem]) < 0

\* line 56: a right child exists and the parent is smaller than it
RightLarger(hsc, hn, rem) ==
    2 * rem < hn /\ secp256k1_scalar_cmp_var(hsc[rem - 1], hsc[2 * rem]) < 0

RECURSIVE SiftDown(_, _, _, _)
SiftDown(hsc, hpt, hn, rem) ==
    IF LeftLarger(hsc, hn, rem)
    THEN IF RightLargerThanLeft(hsc, hn, rem)
         THEN LET s == SWAP(hsc, hpt, rem - 1, 2 * rem)
              IN  SiftDown(s.sc, s.pt, hn, 2 * rem + 1)
         ELSE LET s == SWAP(hsc, hpt, rem - 1, 2 * rem - 1)
              IN  SiftDown(s.sc, s.pt, hn, 2 * rem)
    ELSE IF RightLarger(hsc, hn, rem)
         THEN LET s == SWAP(hsc, hpt, rem - 1, 2 * rem)
              IN  SiftDown(s.sc, s.pt, hn, 2 * rem + 1)
         ELSE [sc |-> hsc, pt |-> hpt]

\* requires hn > 0 (VERIFY_CHECK, line 34)
secp256k1_heap_remove(hsc, hpt, hn) ==
    LET down == SiftDown([hsc EXCEPT ![0] = hsc[hn - 1]],
                         [hpt EXCEPT ![0] = hpt[hn - 1]], hn, 1)
    IN  [sc |-> down.sc, pt |-> down.pt, n |-> hn - 1,
         out_sc |-> hsc[0], out_pt |-> hpt[0]]

(***************************************************************************)
(* Inputs of a call.  Calls with n <= MaxTerms take every combination of   *)
(* scalars and of the points infinity, G and -G; calls with n = MaxTerms+1  *)
(* take every combination of scalars with points[j] = c*j + d; larger      *)
(* calls, up to and one past the capacity, take scalars[j] = a*j + b and   *)
(* points[j] = c*j + d.                                                    *)
(***************************************************************************)
InputPoints == {Infinity, 1, GroupOrder - 1}

PatternSizes == {MaxTerms + 3, SECP256K1_ECMULT_MULTI_MAX_N,
                 SECP256K1_ECMULT_MULTI_MAX_N + 1}

PatternSc(nn, a, b) == [j \in 0 .. (nn - 1) |-> (a * j + b) % GroupOrder]

PatternPt(nn, c, d) == [j \in 0 .. (nn - 1) |-> (c * j + d) % GroupOrder]

EmptyArray == [j \in Slots |-> Undef]

Locals ==
    /\ heap_sc = EmptyArray
    /\ heap_pt = EmptyArray
    /\ heap_n = 0
    /\ i = 0
    /\ max_s = Undef
    /\ max_p = Undef
    /\ max_s1 = Undef
    /\ max_p1 = Undef
    /\ r = Undef
    /\ oob = FALSE
    /\ dbl_inf = FALSE
    /\ cnt_remove = 0
    /\ cnt_add = 0
    /\ cnt_double = 0
    /\ loop_n = 0
    /\ loop_max = 0

Init ==
    /\ \/ /\ n \in 0 .. MaxTerms
          /\ sc \in [0 .. (n - 1) -> Scalars]
          /\ pt \in [0 .. (n - 1) -> InputPoints]
       \/ /\ n = MaxTerms + 1
          /\ sc \in [0 .. (n - 1) -> Scalars]
          /\ \E c \in 0 .. 1, d \in 0 .. 1 : pt = PatternPt(n, c, d)
       \/ /\ n \in PatternSizes
          /\ \E a \in 0 .. 2, b \in Scalars : sc = PatternSc(n, a, b)
          /\ \E c \in 0 .. 1, d \in 0 .. 1 : pt = PatternPt(n, c, d)
    /\ pc = "check"
    /\ Locals

(***************************************************************************)
(* secp256k1_ecmult_multi, one action per step of the function.            *)
(***************************************************************************)
\* line 76: VERIFY_CHECK(n <= SECP256K1_ECMULT_MULTI_MAX_N)
SizeAccepted_offbyone(nn) == nn <= SECP256K1_ECMULT_MULTI_MAX_N + 1

SizeAccepted(nn) == nn <= SECP256K1_ECMULT_MULTI_MAX_N

CheckSize ==
    /\ pc = "check"
    /\ pc' = IF SizeAccepted(n) THEN "load" ELSE "abort_size"
    /\ UNCHANGED <<sc, pt, n, heap_sc, heap_pt, heap_n, i, max_s, max_p, max_s1,
                   max_p1, r, oob, dbl_inf, cnt_remove, cnt_add, cnt_double,
                   loop_n, loop_max>>

\* line 79: the term is loaded into the heap
Loaded_always(s) == TRUE

Loaded(s) == ~secp256k1_scalar_is_zero(s)

\* lines 78-82, one iteration of the loading loop
LoadTerm ==
    /\ pc = "load"
    /\ i < n
    /\ IF Loaded(sc[i])
       THEN LET h == secp256k1_heap_insert(heap_sc, heap_pt, heap_n, sc[i], pt[i])
            IN  /\ heap_sc' = h.sc
                /\ heap_pt' = h.pt
                /\ heap_n' = h.n
                /\ oob' = (oob \/ h.oob)
       ELSE UNCHANGED <<heap_sc, heap_pt, heap_n, oob>>
    /\ i' = i + 1
    /\ UNCHANGED <<sc, pt, n, max_s, max_p, max_s1, max_p1, r, pc, dbl_inf,
                   cnt_remove, cnt_add, cnt_double, loop_n, loop_max>>

\* line 84: the heap is empty after loading
HeapEmpty_never(hn) == FALSE

HeapEmpty(hn) == hn = 0

\* lines 78 (exit) and 84-87
LoadDone ==
    /\ pc = "load"
    /\ i >= n
    /\ IF HeapEmpty(heap_n)
       THEN /\ r' = Infinity
            /\ pc' = "done"
       ELSE /\ r' = r
            /\ pc' = "loop"
    /\ UNCHANGED <<sc, pt, n, heap_sc, heap_pt, heap_n, i, max_s, max_p, max_s1,
                   max_p1, oob, dbl_inf, cnt_remove, cnt_add, cnt_double,
                   loop_n, loop_max>>

RECURSIVE MaxLiveUpTo(_, _)
MaxLiveUpTo(hsc, k) ==
    IF k = 0 THEN 0
    ELSE LET m == MaxLiveUpTo(hsc, k - 1)
         IN  IF hsc[k - 1] > m THEN hsc[k - 1] ELSE m

\* largest scalar among the live slots (0 for an empty heap)
MaxLive == MaxLiveUpTo(heap_sc, heap_n)

\* line 89: the loop continues
LoopContinues_offbyone(hn) == hn > 0

LoopContinues(hn) == hn > 1

\* lines 89 and 95: loop test, then the first extraction
Remove1 ==
    /\ pc = "loop"
    /\ LoopContinues(heap_n)
    /\ LET h == secp256k1_heap_remove(heap_sc, heap_pt, heap_n)
       IN  /\ heap_sc' = h.sc
           /\ heap_pt' = h.pt
           /\ heap_n' = h.n
           /\ max_s' = h.out_sc
           /\ max_p' = h.out_pt
    /\ cnt_remove' = Bump(cnt_remove)
    /\ loop_n' = heap_n
    /\ loop_max' = MaxLive
    /\ pc' = "remove2"
    /\ UNCHANGED <<sc, pt, n, i, max_s1, max_p1, r, oob, dbl_inf, cnt_add, cnt_double>>

\* line 96: the second extraction; line 34 guards it
Remove2 ==
    /\ pc = "remove2"
    /\ IF heap_n > 0
       THEN /\ LET h == secp256k1_heap_remove(heap_sc, heap_pt, heap_n)
               IN  /\ heap_sc' = h.sc
                   /\ heap_pt' = h.pt
                   /\ heap_n' = h.n
                   /\ max_s1' = h.out_sc
                   /\ max_p1' = h.out_pt
            /\ cnt_remove' = Bump(cnt_remove)
            /\ pc' = "combine"
       ELSE /\ pc' = "abort_remove"
            /\ UNCHANGED <<heap_sc, heap_pt, heap_n, max_s1, max_p1, cnt_remove>>
    /\ UNCHANGED <<sc, pt, n, i, max_s, max_p, r, oob, dbl_inf, cnt_add, cnt_double,
                   loop_n, loop_max>>

\* line 101: Y -> X + Y
CombinedPoint_keepY(x, y) == y

CombinedPoint(x, y) == secp256k1_gej_add_var(x, y)

\* line 103: the X term is reinserted
Reinserted_always(m, m1) == TRUE

Reinserted(m, m1) == ~secp256k1_scalar_eq(m, m1)

\* lines 104-105: n -> n - m
Difference_swapped(m, m1) == secp256k1_scalar_add(m1, secp256k1_scalar_negate(m))

Difference(m, m1) == secp256k1_scalar_add(m, secp256k1_scalar_negate(m1))

\* lines 101-107
Combine ==
    /\ pc = "combine"
    /\ LET y  == CombinedPoint(max_p, max_p1)
           h1 == secp256k1_heap_insert(heap_sc, heap_pt, heap_n, max_s1, y)
       IN  /\ max_p1' = y
           /\ IF Reinserted(max_s, max_s1)
              THEN LET d  == Difference(max_s, max_s1)
                       h2 == secp256k1_heap_insert(h1.sc, h1.pt, h1.n, d, max_p)
                   IN  /\ max_s1' = secp256k1_scalar_negate(max_s1)
                       /\ max_s' = d
                       /\ heap_sc' = h2.sc
                       /\ heap_pt' = h2.pt
                       /\ heap_n' = h2.n
                       /\ oob' = (oob \/ h1.oob \/ h2.oob)
              ELSE /\ UNCHANGED <<max_s, max_s1>>
                   /\ heap_sc' = h1.sc
                   /\ heap_pt' = h1.pt
                   /\ heap_n' = h1.n
                   /\ oob' = (oob \/ h1.oob)
    /\ cnt_add' = Bump(cnt_add)
    /\ pc' = "loop"
    /\ UNCHANGED <<sc, pt, n, i, max_p, r, dbl_inf, cnt_remove, cnt_double,
                   loop_n, loop_max>>

\* lines 89 (exit) and 109-110
LoopExit ==
    /\ pc = "loop"
    /\ ~LoopContinues(heap_n)
    /\ pc' = IF heap_n = 1 /\ ~secp256k1_scalar_is_zero(heap_sc[0])
             THEN "finish" ELSE "abort_post"
    /\ UNCHANGED <<sc, pt, n, heap_sc, heap_pt, heap_n, i, max_s, max_p, max_s1,
                   max_p1, r, oob, dbl_inf, cnt_remove, cnt_add, cnt_double,
                   loop_n, loop_max>>

\* line 117: the finishing loop is entered
LadderEntered_always(p) == TRUE

LadderEntered(p) == ~secp256k1_gej_is_infinity(p)

\* lines 116-117
Finish ==
    /\ pc = "finish"
    /\ r' = Infinity
    /\ pc' = IF LadderEntered(heap_pt[0]) THEN "ladder" ELSE "done"
    /\ UNCHANGED <<sc, pt, n, heap_sc, heap_pt, heap_n, i, max_s, max_p, max_s1,
                   max_p1, oob, dbl_inf, cnt_remove, cnt_add, cnt_double,
                   loop_n, loop_max>>

\* line 119: the shifted-out bit selects an addition
BitSet_inverted(bit) == bit = 0

BitSet(bit) == bit = 1

\* what gej_double_nonzero can leave behind
DoubleOutcomes(p) ==
    IF secp256k1_gej_is_infinity(p) THEN Points ELSE {secp256k1_gej_double_nonzero(p)}

\* lines 118-123, one test of the finishing loop and, if it passes, one iteration
Ladder ==
    /\ pc = "ladder"
    /\ IF secp256k1_scalar_is_zero(heap_sc[0])
       THEN /\ pc' = "done"
            /\ UNCHANGED <<heap_sc, heap_pt, r, dbl_inf, cnt_add, cnt_double>>
       ELSE LET sh == secp256k1_scalar_shr_int(heap_sc[0], 1)
            IN  /\ heap_sc' = [heap_sc EXCEPT ![0] = sh.val]
                /\ IF BitSet(sh.ret)
                   THEN /\ r' = secp256k1_gej_add_var(r, heap_pt[0])
                        /\ cnt_add' = Bump(cnt_add)
                   ELSE UNCHANGED <<r, cnt_add>>
                /\ \E dbl \in DoubleOutcomes(heap_pt[0]) :
                       heap_pt' = [heap_pt EXCEPT ![0] = dbl]
                /\ dbl_inf' = (dbl_inf \/ secp256k1_gej_is_infinity(heap_pt[0]))
                /\ cnt_double' = Bump(cnt_double)
                /\ pc' = "ladder"
    /\ UNCHANGED <<sc, pt, n, heap_n, i, max_s, max_p, max_s1, max_p1, oob,
                   cnt_remove, loop_n, loop_max>>

Next ==
    \/ CheckSize
    \/ LoadTerm
    \/ LoadDone
    \/ Remove1
    \/ Remove2
    \/ Combine
    \/ LoopExit
    \/ Finish
    \/ Ladder

Spec == Init /\ [][Next]_vars

(***************************************************************************)
(* The driver with the zero test of line 79 left out: every input term is  *)
(* inserted into the heap; everything else is the function as it stands.   *)
(***************************************************************************)
LoadTermAll ==
    /\ pc = "load"
    /\ i < n
    /\ LET h == secp256k1_heap_insert(heap_sc, heap_pt, heap_n, sc[i], pt[i])
       IN  /\ heap_sc' = h.sc
           /\ heap_pt' = h.pt
           /\ heap_n' = h.n
           /\ oob' = (oob \/ h.oob)
    /\ i' = i + 1
    /\ UNCHANGED <<sc, pt, n, max_s, max_p, max_s1, max_p1, r, pc, dbl_inf,
                   cnt_remove, cnt_add, cnt_double, loop_n, loop_max>>

NoFilterNext ==
    \/ CheckSize
    \/ LoadTermAll
    \/ LoadDone
    \/ Remove1
    \/ Remove2
    \/ Combine
    \/ LoopExit
    \/ Finish
    \/ Ladder

\* the calls of Init whose heaps stay small
SmallInit == Init /\ n <= MaxTerms + 3

\* the call is synchronous and single-threaded: every step that can be taken
\* is taken
NoFilterSpec == SmallInit /\ [][NoFilterNext]_vars /\ WF_vars(NoFilterNext)

(***************************************************************************)
(* The heap on its own: any sequence of insertions and extractions from    *)
(* the empty heap.  The inserted term, and the extracted one, are held in  *)
(* max_s and max_p.                                                        *)
(***************************************************************************)
HeapPoints == {Infinity, 1}

HeapInit ==
    /\ n = 0
    /\ sc = << >>
    /\ pt = << >>
    /\ pc = "heap_empty"
    /\ Locals

HeapTestInsert ==
    /\ heap_n < HeapMaxLive
    /\ \E s \in 0 .. HeapMaxScalar, p \in HeapPoints :
           LET h == secp256k1_heap_insert(heap_sc, heap_pt, heap_n, s, p)
           IN  /\ heap_sc' = h.sc
               /\ heap_pt' = h.pt
               /\ heap_n' = h.n
               /\ oob' = (oob \/ h.oob)
               /\ max_s' = s
               /\ max_p' = p
    /\ pc' = "heap_inserted"
    /\ UNCHANGED <<sc, pt, n, i, max_s1, max_p1, r, dbl_inf, cnt_remove, cnt_add,
                   cnt_double, loop_n, loop_max>>

HeapTestRemove ==
    /\ heap_n > 0
    /\ LET h == secp256k1_heap_remove(heap_sc, heap_pt, heap_n)
       IN  /\ heap_sc' = h.sc
           /\ heap_pt' = h.pt
           /\ heap_n' = h.n
           /\ max_s' = h.out_sc
           /\ max_p' = h.out_pt
    /\ pc' = "heap_removed"
    /\ UNCHANGED <<sc, pt, n, i, max_s1, max_p1, r, oob, dbl_inf, cnt_remove,
                   cnt_add, cnt_double, loop_n, loop_max>>

HeapNext ==
    \/ HeapTestInsert
    \/ HeapTestRemove

HeapSpec == HeapInit /\ [][HeapNext]_vars

(***************************************************************************)
(* Reference values the claims are stated against.                         *)
(***************************************************************************)
\* s * p by s successive additions of p
RECURSIVE NaiveMul(_, _)
NaiveMul(s, p) ==
    IF s <= 0 THEN Infinity ELSE (NaiveMul(s - 1, p) + p) % GroupOrder

RECURSIVE SumUpTo(_, _, _)
SumUpTo(ss, pp, k) ==
    IF k = 0 THEN Infinity
    ELSE (SumUpTo(ss, pp, k - 1) + NaiveMul(ss[k - 1], pp[k - 1])) % GroupOrder

\* sum over the inputs of scalars[j] * points[j]
ExpectedSum == SumUpTo(sc, pt, n)

\* sum over the live heap terms of scalar * point
HeapSum == SumUpTo(heap_sc, heap_pt, heap_n)

AllZero == \A j \in 0 .. (n - 1) : sc[j] = 0

NonZeroCount == Cardinality({j \in 0 .. (n - 1) : sc[j] # 0})

LiveSlots == 0 .. (heap_n - 1)

RECURSIVE TermsUpTo(_, _, _)
TermsUpTo(hsc, hpt, k) ==
    IF k = 0 THEN EmptyBag
    ELSE TermsUpTo(hsc, hpt, k - 1) (+) SetToBag({<<hsc[k - 1], hpt[k - 1]>>})

\* the multiset of live (scalar, point) terms
LiveTerms == TermsUpTo(heap_sc, heap_pt, heap_n)

(***************************************************************************)
(* Claims.                                                                 *)
(***************************************************************************)

\* C1: when the call returns, r is the sum over the inputs of
\* scalars[j] * points[j], each product computed by repeated addition; zero
\* scalars and points at infinity are among the inputs.
C1_ResultIsSum == pc = "done" => r = ExpectedSum

C1_Witness ==
    /\ pc = "done"
    /\ n >= 2
    /\ \E j \in 0 .. (n - 1) : sc[j] = 0
    /\ \E j \in 0 .. (n - 1) : sc[j] # 0 /\ pt[j] = Infinity
    /\ cnt_remove > 0
    /\ r # Infinity

\* C2: if n = 0 or every input scalar is zero (and n is within capacity), the
\* call goes from loading straight to its return: the heap stays empty, no
\* extraction, point addition or doubling is ever performed, and the result
\* is the point at infinity.
C2_AllZeroReturnsInfinity ==
    (AllZero /\ n <= SECP256K1_ECMULT_MULTI_MAX_N) =>
        /\ pc \in {"check", "load", "done"}
        /\ heap_n = 0
        /\ cnt_remove = 0 /\ cnt_add = 0 /\ cnt_double = 0
        /\ (pc = "done" => r = Infinity)

C2_Witness == pc = "done" /\ n >= 2 /\ AllZero /\ r = Infinity

\* C3 as stated: for n = 1 with scalar 1 the call returns P, never enters the
\* reduction loop, and adds P into r exactly once, for every P, infinity
\* included.
C3_Original ==
    (pc = "done" /\ n = 1 /\ sc[0] = 1) =>
        r = pt[0] /\ cnt_remove = 0 /\ cnt_add = 1

\* C3 amended: for n = 1 with scalar 1 the call returns P and never enters the
\* reduction loop; when P is not infinity the finishing pass adds P into r
\* exactly once, and when P is infinity the finishing loop is skipped: nothing
\* is added or doubled and r stays infinity.
C3_SingleUnitTerm ==
    (pc = "done" /\ n = 1 /\ sc[0] = 1) =>
        /\ r = pt[0]
        /\ cnt_remove = 0
        /\ (pt[0] # Infinity => cnt_add = 1)
        /\ (pt[0] = Infinity => cnt_add = 0 /\ cnt_double = 0)

C3_Witness == pc = "done" /\ n = 1 /\ sc[0] = 1 /\ pt[0] # Infinity /\ r = pt[0]

\* C4: after any sequence of insertions and extractions from the empty heap,
\* every live slot's scalar is at most its parent's scalar.
C4_HeapOrdered ==
    \A k \in LiveSlots : k >= 1 => heap_sc[(k + 1) \div 2 - 1] >= heap_sc[k]

C4_Witness ==
    /\ pc = "heap_removed"
    /\ heap_n >= 3
    /\ heap_sc[1] < heap_sc[2]
    /\ heap_sc[2] < heap_sc[0]

\* C5: an extraction returns a term that was live before the call, scalar and
\* point together, and whose scalar is at least the scalar of every term that
\* was live before the call.
C5_RemoveReturnsMax ==
    [][pc' = "heap_removed" =>
          /\ \A k \in LiveSlots : max_s' >= heap_sc[k]
          /\ \E k \in LiveSlots : heap_sc[k] = max_s' /\ heap_pt[k] = max_p'
      ]_vars

C5_Witness ==
    /\ pc = "heap_removed"
    /\ heap_n >= 3
    /\ max_s = heap_sc[0]
    /\ max_p # heap_pt[0]
    /\ heap_sc[1] < heap_sc[0]

\* C6: an insertion leaves the live terms of before plus the inserted term and
\* one more live slot; an extraction leaves the live terms of before minus the
\* returned term and one live slot fewer.
C6_TermsTracked ==
    [][/\ pc' = "heap_inserted" =>
              /\ heap_n' = heap_n + 1
              /\ LiveTerms' = LiveTerms (+) SetToBag({<<max_s', max_p'>>})
       /\ pc' = "heap_removed" =>
              /\ heap_n' = heap_n - 1
              /\ LiveTerms' (+) SetToBag({<<max_s', max_p'>>}) = LiveTerms
      ]_vars

\* an extraction has sifted the last term below the root, its stale copy
\* still sitting in the vacated slot
C6_Witness ==
    /\ pc = "heap_removed"
    /\ heap_n >= 3
    /\ \E k \in 1 .. (heap_n - 1) :
           /\ heap_sc[k] = heap_sc[heap_n]
           /\ heap_pt[k] = heap_pt[heap_n]
           /\ heap_sc[k] < heap_sc[0]
           /\ <<heap_sc[0], heap_pt[0]>> # <<heap_sc[k], heap_pt[k]>>

\* C7: a call with n = MAX_N is not rejected and returns the sum of its
\* terms; a call with n > MAX_N stops at the size assertion with the heap
\* untouched and r never written.
C7_CapacityBoundary ==
    /\ n = SECP256K1_ECMULT_MULTI_MAX_N =>
           /\ pc \notin {"abort_size", "abort_remove", "abort_post"}
           /\ (pc = "done" => r = ExpectedSum)
    /\ n > SECP256K1_ECMULT_MULTI_MAX_N =>
           /\ pc \in {"check", "abort_size"}
           /\ heap_n = 0 /\ heap_sc = EmptyArray /\ heap_pt = EmptyArray
           /\ i = 0
           /\ r = Undef

C7_Witness ==
    /\ pc = "done"
    /\ n = SECP256K1_ECMULT_MULTI_MAX_N
    /\ NonZeroCount = n
    /\ r # Infinity

\* C8: in a call with n <= MAX_N the live count never exceeds the number of
\* non-zero input scalars, hence never MAX_N, and no insertion writes outside
\* the arrays.
C8_HeapWithinCapacity ==
    n <= SECP256K1_ECMULT_MULTI_MAX_N =>
        /\ heap_n <= NonZeroCount
        /\ heap_n <= SECP256K1_ECMULT_MULTI_MAX_N
        /\ ~oob

C8_Witness == heap_n = SECP256K1_ECMULT_MULTI_MAX_N /\ pc = "loop"

\* C9: whenever control is at the loop test, before the first iteration and
\* after each one, the sum over the live terms of scalar * point equals the
\* sum over the inputs.
C9_LoopInvariant == pc = "loop" => HeapSum = ExpectedSum

\* an iteration with equal scalars whose points summed to infinity has ended,
\* other terms still live
C9_Witness ==
    /\ pc = "loop"
    /\ cnt_remove >= 2
    /\ heap_n >= 2
    /\ max_s = max_s1
    /\ max_p # Infinity
    /\ max_p1 = Infinity
    /\ ExpectedSum # Infinity

\* C10: at the end of each iteration, the largest live scalar is smaller than
\* when the iteration began, or there are fewer live terms than when it began.
C10_Progress ==
    (pc = "loop" /\ cnt_remove > 0) => (MaxLive < loop_max \/ heap_n < loop_n)

\* an iteration that left the largest scalar as it was and removed a term
C10_Witness ==
    /\ pc = "loop"
    /\ cnt_remove > 0
    /\ MaxLive = loop_max
    /\ heap_n = loop_n - 1
    /\ heap_n >= 2

Aborts == {"abort_size", "abort_remove", "abort_post"}

RECURSIVE ScalarsFromTo(_, _, _)
\* ss[lo] + ... + ss[hi - 1]
ScalarsFromTo(ss, lo, hi) ==
    IF lo >= hi THEN 0 ELSE ss[hi - 1] + ScalarsFromTo(ss, lo, hi - 1)

\* the scalars still to be worked off: those not yet loaded, those live in the
\* heap, and those extracted and not yet combined
Mass ==
    (IF pc \in {"check", "load"} THEN ScalarsFromTo(sc, i, n) ELSE 0)
    + ScalarsFromTo(heap_sc, 0, heap_n)
    + (IF pc \in {"remove2", "combine"} THEN max_s ELSE 0)
    + (IF pc = "combine" THEN max_s1 ELSE 0)

\* a bound on the number of steps left before the call ends
Rank ==
    CASE pc = "check"   -> 3 * Mass + 5 + (n + 2)
      [] pc = "load"    -> 3 * Mass + 5 + (n - i + 1)
      [] pc = "loop"    -> 3 * Mass + 5
      [] pc = "remove2" -> 3 * Mass + 4
      [] pc = "combine" -> 3 * Mass + 3
      [] pc = "finish"  -> heap_sc[0] + 2
      [] pc = "ladder"  -> heap_sc[0] + 1
      [] OTHER          -> 0

\* C11: every call with n <= MAX_N returns after finitely many steps: no step
\* of such a call ends in a failed assertion, and every step lowers a
\* non-negative bound on the steps left: an iteration of the reduction loop
\* lowers the sum of the scalars, an iteration of the finishing loop lowers
\* the remaining scalar.  (A state at any position other than the return and
\* the failed assertions has a next step: the guards of the actions of one
\* position cover all its states.)
C11_Terminates ==
    [][/\ Rank' < Rank
       /\ Rank' >= 0
       /\ n <= SECP256K1_ECMULT_MULTI_MAX_N => pc' \notin Aborts]_vars

\* a call has returned after several loop iterations and a finishing pass of
\* more than one bit
C11_Witness ==
    /\ pc = "done"
    /\ cnt_remove = CntCap
    /\ cnt_double >= 2
    /\ heap_n = 1
    /\ heap_sc[0] = 0

\* C12 as stated: the driver that also inserts the zero-scalar terms
\* eventually returns the sum of the input terms.  Stopping at the assertion
\* of line 110, which a zero scalar left alone in the heap fails, is not
\* counted against the claim here: what refutes it is a call that never ends.
C12_Original ==
    <>(\/ n > SECP256K1_ECMULT_MULTI_MAX_N
       \/ pc = "abort_post"
       \/ (pc = "done" /\ r = ExpectedSum))

\* C12 amended: the driver that also inserts the zero-scalar terms returns
\* only when no input scalar is zero, and then returns the sum of the input
\* terms; with a zero scalar among the inputs it never returns.
C12_ZeroTermsBlockReturn ==
    pc = "done" => (NonZeroCount = n /\ r = ExpectedSum)

\* an iteration that extracted (m, X) and (0, Y) has put back (0, X + Y) and
\* (m, X): nothing has become smaller
C12_Witness ==
    /\ pc = "loop"
    /\ cnt_remove = CntCap
    /\ heap_n = 2
    /\ loop_n = 2
    /\ heap_sc[0] = loop_max
    /\ heap_sc[0] # 0
    /\ heap_sc[1] = 0

\* C13: after a load that left the heap non-empty, the loop is left with
\* exactly one live term, whose scalar is not zero: neither assertion of
\* lines 109-110 fails.
C13_PostLoopAssertions ==
    /\ pc # "abort_post"
    /\ pc = "finish" => (heap_n = 1 /\ heap_sc[0] # 0)

\* the loop has run and been left
C13_Witness ==
    /\ pc = "finish"
    /\ cnt_remove >= 2
    /\ NonZeroCount >= 3
    /\ heap_n = 1
    /\ heap_sc[0] > 1

\* C14: the combining step of an iteration that extracted (m, X) and then
\* (m', Y) adds (m', X + Y) to the live terms; if m # m' it also adds
\* (m - m', X) and the heap is as large as when the iteration began; if
\* m = m' it adds nothing else and the heap is one smaller than when the
\* iteration began.
C14_Reinsertion ==
    [][pc = "combine" =>
          LET sum == <<max_s1, (max_p + max_p1) % GroupOrder>>
              dif == <<max_s - max_s1, max_p>>
          IN  /\ max_s # max_s1 =>
                     /\ LiveTerms' = LiveTerms (+) SetToBag({sum}) (+) SetToBag({dif})
                     /\ heap_n' = loop_n
              /\ max_s = max_s1 =>
                     /\ LiveTerms' = LiveTerms (+) SetToBag({sum})
                     /\ heap_n' = loop_n - 1
      ]_vars

\* an iteration with m = m' has ended with other terms still live
C14_Witness ==
    /\ pc = "loop"
    /\ cnt_remove >= 2
    /\ heap_n = loop_n - 1
    /\ heap_n >= 2
    /\ max_s = max_s1
    /\ \E k \in LiveSlots : heap_sc[k] = max_s1 /\ heap_pt[k] = max_p1

\* C15: the finishing pass starts from r = infinity; it skips the loop exactly
\* when P is infinity; each iteration shifts s right by one, adds the current
\* P into r exactly when the bit shifted out is 1, and then doubles P; the
\* loop ends when s is zero.  So r + s * P keeps the value s * P it had when
\* the pass began, and r holds it at the return.
C15_FinishingPass ==
    [][LET s == heap_sc[0]
           p == heap_pt[0]
       IN  /\ pc = "finish" =>
                  /\ r' = Infinity
                  /\ (pc' = "done") = (p = Infinity)
                  /\ (pc' = "ladder") = (p # Infinity)
                  /\ (r' + NaiveMul(heap_sc'[0], heap_pt'[0])) % GroupOrder
                         = NaiveMul(s, p)
           /\ (pc = "ladder" /\ s # 0) =>
                  /\ pc' = "ladder"
                  /\ heap_sc'[0] = s \div 2
                  /\ r' = IF s % 2 = 1 THEN (r + p) % GroupOrder ELSE r
                  /\ heap_pt'[0] = (p + p) % GroupOrder
                  /\ (r' + NaiveMul(heap_sc'[0], heap_pt'[0])) % GroupOrder
                         = (r + NaiveMul(s, p)) % GroupOrder
           /\ (pc = "ladder" /\ s = 0) =>
                  /\ pc' = "done"
                  /\ r' = r
      ]_vars

\* a single term (3, P) has gone through the finishing pass: two bits
C15_Witness ==
    /\ pc = "done"
    /\ n = 1
    /\ sc[0] = 3
    /\ pt[0] # Infinity
    /\ cnt_double = 2
    /\ cnt_add = 2
    /\ r = NaiveMul(3, pt[0])

\* C16: gej_double_nonzero is never applied to the point at infinity: inside
\* the finishing loop P is never infinity, before or after a doubling.
C16_NoDoublingOfInfinity ==
    /\ ~dbl_inf
    /\ pc = "ladder" => heap_pt[0] # Infinity

\* the last bit has been shifted out and P doubled once more
C16_Witness ==
    /\ pc = "ladder"
    /\ heap_sc[0] = 0
    /\ cnt_double >= 2
    /\ heap_pt[0] # Infinity

\* C17: neither extraction of an iteration finds the heap empty: the first
\* sees more than one live term, the second at least one.
C17_NoRemoveFromEmpty ==
    /\ pc # "abort_remove"
    /\ pc = "remove2" => (heap_n >= 1 /\ loop_n >= 2)

\* the second extraction is about to take the last live term
C17_Witness == pc = "remove2" /\ heap_n = 1 /\ loop_n = 2

\* C18: in every iteration the first extracted scalar m is at least the
\* second, m'; when they differ, m + (-m') modulo the group order is the
\* integer m - m', which lies strictly between 0 and m.
C18_DifferenceDoesNotWrap ==
    pc = "combine" =>
        /\ max_s >= max_s1
        /\ max_s # max_s1 =>
               /\ Difference(max_s, max_s1) = max_s - max_s1
               /\ 0 < max_s - max_s1
               /\ max_s - max_s1 < max_s

C18_Witness ==
    /\ pc = "combine"
    /\ max_s > max_s1
    /\ max_s1 > 1
    /\ heap_n >= 1
    /\ cnt_remove = CntCap

\* C19: from the start of loading until the finishing pass begins, every
\* scalar in a live slot is non-zero.
C19_LiveScalarsNonZero ==
    pc \in {"load", "loop", "remove2", "combine", "finish"} =>
        \A k \in LiveSlots : heap_sc[k] # 0

\* a zero scalar was dropped at load and an iteration with m = m' has ended
C19_Witness ==
    /\ pc = "loop"
    /\ NonZeroCount < n
    /\ cnt_remove >= 2
    /\ heap_n >= 2
    /\ max_s = max_s1
    /\ heap_n = loop_n - 1

====
